---- MODULE Spec2Model ----
(***************************************************************************)
(* Model of the prediction-ensembling commands of cervix-classif:          *)
(*   average()  in src/src/average_submissions.py  (weighted averaging)    *)
(*   train()    in src/src/stacking.py             (stacking)              *)
(*                                                                         *)
(* Numbers.  Probabilities are counted in halves (the field "0.5" is 1,    *)
(* "1" is 2) and weights are integers in an arbitrary common unit, so that *)
(* products and sums are exact.  A quotient is kept as the pair            *)
(* [num, den]; two quotients are compared by cross-multiplication.  The    *)
(* arithmetic of the model is therefore exact rational arithmetic: an      *)
(* equality proved here holds of the IEEE doubles of numpy up to rounding. *)
(*                                                                         *)
(* Text.  A line of a file is the sequence of its comma-separated fields,  *)
(* a file is the sequence of its lines, the header line first.             *)
(***************************************************************************)
EXTENDS Integers, Sequences, FiniteSets, TLC

VARIABLES
    W_SUBMISSIONS,  \* the module-level table source file -> weight, in insertion order
    request,        \* per caller: the table the caller wants combined
    pc,             \* per caller: position in average()
    items,          \* per caller: the items view taken by the for statement
    idx,            \* per caller: number of sources iterated so far
    names,          \* per caller: local names
    probs,          \* per caller: local probs (one matrix per source)
    weights,        \* per caller: local weights
    averaged,       \* per caller: local averaged
    err,            \* per caller: the exception that ended the call, or "none"
    submissions,    \* the calls of create_submission_file made by average()
    cross_validate, \* train(): the mode flag
    MODELS,         \* the module-level table model file -> preprocessing function
    classes,        \* number of output columns of each model file
    tpc,            \* train(): position
    m,              \* train(): number of models the loop has completed
    model_preds_val,\* train(): local model_preds_val
    model_preds_te, \* train(): local model_preds_te
    preds_val,      \* train(): local preds_val
    preds_te,       \* train(): local preds_te
    lr,             \* train(): the final combiner (what it was fitted on)
    y_pred,         \* train(): local y_pred
    scores,         \* train(): local scores (what cross_val_scores was given)
    trace,          \* train(): the external calls made so far, in order
    stacked         \* the calls of create_submission_file made by train()

avgVars == <<W_SUBMISSIONS, request, pc, items, idx, names, probs, weights,
             averaged, err, submissions>>
trainVars == <<cross_validate, MODELS, classes, tpc, m, model_preds_val,
               model_preds_te, preds_val, preds_te, lr, y_pred, scores, trace,
               stacked>>
vars == <<avgVars, trainVars>>

(***************************************************************************)
(* Bounds                                                                  *)
(***************************************************************************)
MaxSources == 2      \* entries of W_SUBMISSIONS: 1 .. MaxSources
MaxWeight == 2       \* weights range over -1 .. MaxWeight
MaxModels == 3       \* entries of MODELS: 1 .. MaxModels

Callers == {"t1", "t2"}
Weights == (0 - 1) .. MaxWeight

(***************************************************************************)
(* Generic helpers                                                         *)
(***************************************************************************)
RECURSIVE SumSeq(_)
SumSeq(s) == IF s = <<>> THEN 0 ELSE Head(s) + SumSeq(Tail(s))

Last(s) == s[Len(s)]

(***************************************************************************)
(* The submission files on disk.  A name outside DOMAIN Disk is a file     *)
(* that does not exist.                                                    *)
(***************************************************************************)
Header3 == <<"image_name", "Type_1", "Type_2">>
Header4 == <<"image_name", "Type_1", "Type_2", "Type_3">>

Disk ==
    [f \in {"ab1", "ab2", "ba", "ac", "a", "unnorm", "hdr4", "nonfloat", "short"} |->
       CASE f = "ab1"      -> <<Header3, <<"a", "1", "0">>,     <<"b", "0", "1">> >>
         [] f = "ab2"      -> <<Header3, <<"a", "0.5", "0.5">>, <<"b", "0", "1">> >>
         [] f = "ba"       -> <<Header3, <<"b", "0", "1">>,     <<"a", "0.5", "0.5">> >>
         [] f = "ac"       -> <<Header3, <<"a", "1", "0">>,     <<"c", "0.5", "0.5">> >>
         [] f = "a"        -> <<Header3, <<"a", "0", "1">> >>
         [] f = "unnorm"   -> <<Header3, <<"a", "0.5", "1">>,   <<"b", "0", "1">> >>
         [] f = "hdr4"     -> <<Header4, <<"a", "0", "1">>,     <<"b", "1", "0">> >>
         [] f = "nonfloat" -> <<Header3, <<"a", "x", "0">>,     <<"b", "0", "1">> >>
         [] f = "short"    -> <<Header3, <<"a", "1", "0">>,     <<"b", "1">> >>]

FileNames == DOMAIN Disk \cup {"missing"}

\* float(x) of a field: the value in halves; a field outside the table raises ValueError
FloatTable == [x \in {"0", "0.5", "1"} |->
                 CASE x = "0" -> 0 [] x = "0.5" -> 1 [] x = "1" -> 2]
IsFloat(x) == x \in DOMAIN FloatTable
Float(x) == FloatTable[x]
One == Float("1")

(***************************************************************************)
(* utils.read_lines and utils.create_submission_file                       *)
(***************************************************************************)
Exists(file_name) == file_name \in DOMAIN Disk
read_lines(file_name) == Disk[file_name]

OutputOfAverage == "xception_fine_tuned_averaged.csv"
OutputOfTrain == "stacked.csv"

\* write(keys, matrix, path) requires len(keys) = len(matrix)
CanWrite(keys, matrix) == Len(keys) = Len(matrix)
create_submission_file(log, by, keys, matrix, path) ==
    Append(log, [by |-> by, path |-> path, keys |-> keys, matrix |-> matrix])

(***************************************************************************)
(* average(): the body of the loop over the lines of one file              *)
(***************************************************************************)
\* line 23: the header line is dropped, whatever it holds
DataLines(file_name) == Tail(read_lines(file_name))

\* lines 28, 32: names is emptied, then receives split[0] of every line
\* (NamesNotReset: the variant without the reset of line 28)
NamesNotReset(old, lines) == old \o [i \in 1 .. Len(lines) |-> lines[i][1]]
NamesOf(old, lines) == [i \in 1 .. Len(lines) |-> lines[i][1]]

\* line 33: float(x) for x in split[1:] raises ValueError on a field that is no float
LineParses(line) == \A j \in 2 .. Len(line) : IsFloat(line[j])
RowOf(line) == [j \in 1 .. Len(line) - 1 |-> Float(line[j + 1])]
SingleProbs(lines) == [i \in 1 .. Len(lines) |-> RowOf(lines[i])]

\* line 35: np.array(single_probs) needs rows of one length (ValueError of
\* NumPy 1.24 and later; earlier releases built an array of objects instead)
Rectangular(mat) == \A i, j \in 1 .. Len(mat) : Len(mat[i]) = Len(mat[j])
Shape(mat) == <<Len(mat), IF Len(mat) = 0 THEN 0 ELSE Len(mat[1])>>

\* line 37: np.array(probs) needs matrices of one shape (the same ValueError)
Stackable(ps) == \A i, j \in 1 .. Len(ps) : Shape(ps[i]) = Shape(ps[j])

(***************************************************************************)
(* average(): the weighted combination, lines 40-41                        *)
(***************************************************************************)
\* line 40: probs * weights[:, np.newaxis, np.newaxis]
\* (ScaledUnweighted: the variant that drops the weights)
ScaledUnweighted(ps, ws) ==
    [i \in 1 .. Len(ps) |->
       [r \in 1 .. Len(ps[i]) |->
          [c \in 1 .. Len(ps[i][r]) |-> ps[i][r][c]]]]
Scaled(ps, ws) ==
    [i \in 1 .. Len(ps) |->
       [r \in 1 .. Len(ps[i]) |->
          [c \in 1 .. Len(ps[i][r]) |-> ps[i][r][c] * ws[i]]]]

\* np.sum(_, axis=0); of no source at all, the product of line 40 has the
\* shape (0, 1, 0) and its sum is one row without columns
SumAxis0(ps) ==
    IF ps = <<>> THEN << <<>> >>
    ELSE [r \in 1 .. Len(ps[1]) |->
            [c \in 1 .. Len(ps[1][r]) |->
               SumSeq([i \in 1 .. Len(ps) |-> ps[i][r][c]])]]

\* line 41: np.sum(averaged, axis=0) / np.sum(weights), entry by entry; numpy
\* divides by zero without raising (the entry is then inf or nan: den = 0)
\* (DivideByCount: the variant that divides by the number of sources)
DivideByCount(mat, ws) ==
    [r \in 1 .. Len(mat) |->
       [c \in 1 .. Len(mat[r]) |-> [num |-> mat[r][c], den |-> Len(ws)]]]
Divide(mat, ws) ==
    [r \in 1 .. Len(mat) |->
       [c \in 1 .. Len(mat[r]) |-> [num |-> mat[r][c], den |-> SumSeq(ws)]]]

Averaged(ps, ws) == Divide(SumAxis0(Scaled(ps, ws)), ws)

(***************************************************************************)
(* average(): the steps of one call, by caller t                           *)
(***************************************************************************)
\* lines 9-15: the module-level assignment binds the table; it is the only
\* place a caller can put the ensemble it wants combined
Configure(t) ==
    /\ pc[t] = "setup"
    /\ W_SUBMISSIONS' = request[t]
    /\ pc' = [pc EXCEPT ![t] = "call"]
    /\ UNCHANGED <<request, items, idx, names, probs, weights, averaged, err,
                   submissions, trainVars>>

\* line 19, and line 21 as far as taking the items view of the global table
Start(t) ==
    /\ pc[t] = "call"
    /\ names' = [names EXCEPT ![t] = <<>>]
    /\ probs' = [probs EXCEPT ![t] = <<>>]
    /\ weights' = [weights EXCEPT ![t] = <<>>]
    /\ items' = [items EXCEPT ![t] = W_SUBMISSIONS]
    /\ idx' = [idx EXCEPT ![t] = 0]
    /\ pc' = [pc EXCEPT ![t] = "loop"]
    /\ UNCHANGED <<W_SUBMISSIONS, request, averaged, err, submissions, trainVars>>

Raise(t, e) ==
    /\ err' = [err EXCEPT ![t] = e]
    /\ pc' = [pc EXCEPT ![t] = "failed"]

\* lines 21-35, one iteration that completes
ReadSource(t) ==
    /\ pc[t] = "loop"
    /\ idx[t] < Len(items[t])
    /\ LET file_name == items[t][idx[t] + 1].file
           weight == items[t][idx[t] + 1].weight
       IN /\ Exists(file_name)
          /\ LET lines == DataLines(file_name)
             IN /\ \A i \in 1 .. Len(lines) : LineParses(lines[i])
                /\ Rectangular(SingleProbs(lines))
                /\ weights' = [weights EXCEPT ![t] = Append(@, weight)]
                /\ names' = [names EXCEPT ![t] = NamesOf(@, lines)]
                /\ probs' = [probs EXCEPT ![t] = Append(@, SingleProbs(lines))]
    /\ idx' = [idx EXCEPT ![t] = @ + 1]
    /\ UNCHANGED <<W_SUBMISSIONS, request, pc, items, averaged, err, submissions,
                   trainVars>>

\* line 23: read_lines on a file that does not exist
\* (ReadSourceSkips: the variant that swallows the error and goes on)
ReadSourceSkips(t) ==
    /\ pc[t] = "loop"
    /\ idx[t] < Len(items[t])
    /\ ~Exists(items[t][idx[t] + 1].file)
    /\ idx' = [idx EXCEPT ![t] = @ + 1]
    /\ UNCHANGED <<W_SUBMISSIONS, request, pc, items, names, probs, weights,
                   averaged, err, submissions, trainVars>>
ReadSourceIOError(t) ==
    /\ pc[t] = "loop"
    /\ idx[t] < Len(items[t])
    /\ ~Exists(items[t][idx[t] + 1].file)
    /\ Raise(t, "IOError")
    /\ UNCHANGED <<W_SUBMISSIONS, request, items, idx, names, probs, weights,
                   averaged, submissions, trainVars>>

\* line 33 (float of a field that is no float) and line 35 (rows of unequal
\* length): ValueError, after line 25 has appended the weight
ReadSourceValueError(t) ==
    /\ pc[t] = "loop"
    /\ idx[t] < Len(items[t])
    /\ LET file_name == items[t][idx[t] + 1].file
           weight == items[t][idx[t] + 1].weight
       IN /\ Exists(file_name)
          /\ LET lines == DataLines(file_name)
             IN \/ \E i \in 1 .. Len(lines) : ~LineParses(lines[i])
                \/ /\ \A i \in 1 .. Len(lines) : LineParses(lines[i])
                   /\ ~Rectangular(SingleProbs(lines))
          /\ weights' = [weights EXCEPT ![t] = Append(@, weight)]
    /\ Raise(t, "ValueError")
    /\ UNCHANGED <<W_SUBMISSIONS, request, items, idx, names, probs, averaged,
                   submissions, trainVars>>

\* lines 37-41, the loop being exhausted
Combine(t) ==
    /\ pc[t] = "loop"
    /\ idx[t] = Len(items[t])
    /\ Stackable(probs[t])
    /\ averaged' = [averaged EXCEPT ![t] = Averaged(probs[t], weights[t])]
    /\ pc' = [pc EXCEPT ![t] = "write"]
    /\ UNCHANGED <<W_SUBMISSIONS, request, items, idx, names, probs, weights,
                   err, submissions, trainVars>>

\* line 37: np.array of matrices of different shapes
CombineValueError(t) ==
    /\ pc[t] = "loop"
    /\ idx[t] = Len(items[t])
    /\ ~Stackable(probs[t])
    /\ Raise(t, "ValueError")
    /\ UNCHANGED <<W_SUBMISSIONS, request, items, idx, names, probs, weights,
                   averaged, submissions, trainVars>>

\* lines 43-47
WriteSubmission(t) ==
    /\ pc[t] = "write"
    /\ IF CanWrite(names[t], averaged[t])
       THEN /\ submissions' = create_submission_file(
                   submissions, t, names[t], averaged[t], OutputOfAverage)
            /\ pc' = [pc EXCEPT ![t] = "done"]
            /\ err' = err
       ELSE /\ Raise(t, "ShapeMismatchError")
            /\ submissions' = submissions
    /\ UNCHANGED <<W_SUBMISSIONS, request, items, idx, names, probs, weights,
                   averaged, trainVars>>

Average(t) ==
    \/ Start(t)
    \/ ReadSource(t)
    \/ ReadSourceIOError(t)
    \/ ReadSourceValueError(t)
    \/ Combine(t)
    \/ CombineValueError(t)
    \/ WriteSubmission(t)

(***************************************************************************)
(* train() of stacking.py.  A prediction matrix is kept as the sequence of *)
(* its columns, each column named by where it comes from: the model file,  *)
(* its preprocessing function, the directory predicted on, the class.      *)
(***************************************************************************)
Preprocess == {"xception_preprocess", "inception_preprocess"}
ClassCounts == {2, 3}

\* lines 103-118: one column per output class of the model, rows of dir_id
make_predictions(model, dir_id) ==
    [c \in 1 .. classes[model.name] |->
       [model |-> model.name, preprocess |-> model.preprocess,
        dir |-> dir_id, class |-> c]]

\* np.hstack((a, b))
hstack(a, b) == a \o b

\* the column layout of a feature matrix: which model and class each column is
Layout(mat) == [i \in 1 .. Len(mat) |-> <<mat[i].model, mat[i].class>>]

Unfitted == [fitted |-> FALSE, X |-> <<>>, y |-> "none"]
NoPrediction == [made |-> FALSE, by |-> Unfitted, X |-> <<>>]
NoScores == [made |-> FALSE, X |-> <<>>, y |-> "none"]

\* lines 44-48
TrainStart ==
    /\ tpc = "call"
    /\ preds_val' = <<>>
    /\ preds_te' = <<>>
    /\ m' = 0
    /\ tpc' = "loop"
    /\ UNCHANGED <<cross_validate, MODELS, classes, model_preds_val,
                   model_preds_te, lr, y_pred, scores, trace, stacked, avgVars>>

\* lines 50-58
PredictVal ==
    /\ tpc = "loop"
    /\ m < Len(MODELS)
    /\ model_preds_val' = make_predictions(MODELS[m + 1], "val")
    /\ trace' = Append(trace, "predict_val")
    /\ tpc' = IF cross_validate THEN "hstack_val" ELSE "predict_te"
    /\ UNCHANGED <<cross_validate, MODELS, classes, m, model_preds_te, preds_val,
                   preds_te, lr, y_pred, scores, stacked, avgVars>>

\* lines 60-66
PredictTe ==
    /\ tpc = "predict_te"
    /\ model_preds_te' = make_predictions(MODELS[m + 1], "te")
    /\ trace' = Append(trace, "predict_te")
    /\ tpc' = "hstack_val"
    /\ UNCHANGED <<cross_validate, MODELS, classes, m, model_preds_val, preds_val,
                   preds_te, lr, y_pred, scores, stacked, avgVars>>

\* line 68 (and, in cross-validate mode, the end of the iteration)
StackVal ==
    /\ tpc = "hstack_val"
    /\ preds_val' = hstack(preds_val, model_preds_val)
    /\ IF cross_validate
       THEN m' = m + 1 /\ tpc' = "loop"
       ELSE m' = m /\ tpc' = "hstack_te"
    /\ UNCHANGED <<cross_validate, MODELS, classes, model_preds_val,
                   model_preds_te, preds_te, lr, y_pred, scores, trace, stacked,
                   avgVars>>

\* lines 69-70
\* (StackTeSkipsFirst: the variant that loses the first test block)
StackTeSkipsFirst ==
    /\ tpc = "hstack_te"
    /\ preds_te' = IF m = 0 THEN preds_te ELSE hstack(preds_te, model_preds_te)
    /\ m' = m + 1
    /\ tpc' = "loop"
    /\ UNCHANGED <<cross_validate, MODELS, classes, model_preds_val,
                   model_preds_te, preds_val, lr, y_pred, scores, trace, stacked,
                   avgVars>>
StackTe ==
    /\ tpc = "hstack_te"
    /\ preds_te' = hstack(preds_te, model_preds_te)
    /\ m' = m + 1
    /\ tpc' = "loop"
    /\ UNCHANGED <<cross_validate, MODELS, classes, model_preds_val,
                   model_preds_te, preds_val, lr, y_pred, scores, trace, stacked,
                   avgVars>>

\* line 72, the loop being exhausted
CreateEmbeddings ==
    /\ tpc = "loop"
    /\ m = Len(MODELS)
    /\ trace' = Append(trace, "create_embeddings")
    /\ tpc' = IF cross_validate THEN "cross_val_scores" ELSE "fit"
    /\ UNCHANGED <<cross_validate, MODELS, classes, m, model_preds_val,
                   model_preds_te, preds_val, preds_te, lr, y_pred, scores,
                   stacked, avgVars>>

\* lines 75-86
CrossValScores ==
    /\ tpc = "cross_val_scores"
    /\ scores' = [made |-> TRUE, X |-> preds_val, y |-> "y_val"]
    /\ trace' = Append(trace, "cross_val_scores")
    /\ tpc' = "print_scores"
    /\ UNCHANGED <<cross_validate, MODELS, classes, m, model_preds_val,
                   model_preds_te, preds_val, preds_te, lr, y_pred, stacked,
                   avgVars>>

\* line 88
PrintScores ==
    /\ tpc = "print_scores"
    /\ trace' = Append(trace, "print_scores")
    /\ tpc' = "done"
    /\ UNCHANGED <<cross_validate, MODELS, classes, m, model_preds_val,
                   model_preds_te, preds_val, preds_te, lr, y_pred, scores,
                   stacked, avgVars>>

\* lines 90-91
\* (FitOnTest: the variant that fits on the test features)
FitOnTest ==
    /\ tpc = "fit"
    /\ lr' = [fitted |-> TRUE, X |-> preds_te, y |-> "y_val"]
    /\ trace' = Append(trace, "fit")
    /\ tpc' = "predict_proba"
    /\ UNCHANGED <<cross_validate, MODELS, classes, m, model_preds_val,
                   model_preds_te, preds_val, preds_te, y_pred, scores, stacked,
                   avgVars>>
Fit ==
    /\ tpc = "fit"
    /\ lr' = [fitted |-> TRUE, X |-> preds_val, y |-> "y_val"]
    /\ trace' = Append(trace, "fit")
    /\ tpc' = "predict_proba"
    /\ UNCHANGED <<cross_validate, MODELS, classes, m, model_preds_val,
                   model_preds_te, preds_val, preds_te, y_pred, scores, stacked,
                   avgVars>>

\* line 92: predict_proba raises ValueError when the number of columns is not
\* the number the combiner was fitted on
PredictProba ==
    /\ tpc = "predict_proba"
    /\ IF Len(preds_te) = Len(lr.X)
       THEN /\ y_pred' = [made |-> TRUE, by |-> lr, X |-> preds_te]
            /\ trace' = Append(trace, "predict_proba")
            /\ tpc' = "write"
       ELSE /\ y_pred' = y_pred
            /\ trace' = Append(trace, "ValueError")
            /\ tpc' = "failed"
    /\ UNCHANGED <<cross_validate, MODELS, classes, m, model_preds_val,
                   model_preds_te, preds_val, preds_te, lr, scores, stacked,
                   avgVars>>

\* lines 94-98
WriteStacked ==
    /\ tpc = "write"
    /\ stacked' = create_submission_file(stacked, "train", "te_names", y_pred,
                                         OutputOfTrain)
    /\ trace' = Append(trace, "create_submission_file")
    /\ tpc' = "print_coef"
    /\ UNCHANGED <<cross_validate, MODELS, classes, m, model_preds_val,
                   model_preds_te, preds_val, preds_te, lr, y_pred, scores,
                   avgVars>>

\* line 100
PrintCoef ==
    /\ tpc = "print_coef"
    /\ trace' = Append(trace, "print_coef")
    /\ tpc' = "done"
    /\ UNCHANGED <<cross_validate, MODELS, classes, m, model_preds_val,
                   model_preds_te, preds_val, preds_te, lr, y_pred, scores,
                   stacked, avgVars>>

(***************************************************************************)
(* The tables W_SUBMISSIONS can hold: 1 .. MaxSources distinct file names, *)
(* each with a weight.                                                     *)
(***************************************************************************)
Entries == [file : FileNames, weight : Weights]
Tables ==
    UNION {{tab \in [1 .. n -> Entries] :
              \A i, j \in 1 .. n : i # j => tab[i].file # tab[j].file} :
           n \in 1 .. MaxSources}

TrainOff ==
    /\ cross_validate = TRUE
    /\ MODELS = <<>>
    /\ classes = <<>>
    /\ tpc = "off"
    /\ m = 0
    /\ model_preds_val = <<>>
    /\ model_preds_te = <<>>
    /\ preds_val = <<>>
    /\ preds_te = <<>>
    /\ lr = Unfitted
    /\ y_pred = NoPrediction
    /\ scores = NoScores
    /\ trace = <<>>
    /\ stacked = <<>>

Locals ==
    /\ items = [t \in Callers |-> <<>>]
    /\ idx = [t \in Callers |-> 0]
    /\ names = [t \in Callers |-> <<>>]
    /\ probs = [t \in Callers |-> <<>>]
    /\ weights = [t \in Callers |-> <<>>]
    /\ averaged = [t \in Callers |-> <<>>]
    /\ err = [t \in Callers |-> "none"]
    /\ submissions = <<>>

\* one call of average() on a table of W_SUBMISSIONS
Init ==
    /\ W_SUBMISSIONS \in Tables
    /\ request = [t \in Callers |-> W_SUBMISSIONS]
    /\ pc = [t \in Callers |-> IF t = "t1" THEN "call" ELSE "off"]
    /\ Locals
    /\ TrainOff

Next == Average("t1")

Spec == Init /\ [][Next]_vars

(***************************************************************************)
(* One call of train(), in either mode, on a table MODELS of               *)
(* 1 .. MaxModels model files.                                             *)
(***************************************************************************)
ModelTables ==
    UNION {[1 .. n -> Preprocess] : n \in 1 .. MaxModels}

AverageOff ==
    /\ W_SUBMISSIONS = <<>>
    /\ request = [t \in Callers |-> <<>>]
    /\ pc = [t \in Callers |-> "off"]
    /\ Locals

InitTrain ==
    /\ cross_validate \in BOOLEAN
    /\ \E tab \in ModelTables :
         /\ MODELS = [i \in DOMAIN tab |-> [name |-> i, preprocess |-> tab[i]]]
         /\ classes \in [DOMAIN tab -> ClassCounts]
    /\ tpc = "call"
    /\ m = 0
    /\ model_preds_val = <<>>
    /\ model_preds_te = <<>>
    /\ preds_val = <<>>
    /\ preds_te = <<>>
    /\ lr = Unfitted
    /\ y_pred = NoPrediction
    /\ scores = NoScores
    /\ trace = <<>>
    /\ stacked = <<>>
    /\ AverageOff

NextTrain ==
    \/ TrainStart
    \/ PredictVal
    \/ PredictTe
    \/ StackVal
    \/ StackTe
    \/ CreateEmbeddings
    \/ CrossValScores
    \/ PrintScores
    \/ Fit
    \/ PredictProba
    \/ WriteStacked
    \/ PrintCoef

SpecTrain == InitTrain /\ [][NextTrain]_vars

(***************************************************************************)
(* Two callers in one process, each wanting its own ensemble combined.     *)
(* average() takes no argument, so a caller chooses its ensemble by        *)
(* binding the module global (Configure) before it calls; the locals of    *)
(* each call are its own, the table and the output path are shared.        *)
(***************************************************************************)
Entry(f, w) == [file |-> f, weight |-> w]
Ensembles ==
    { <<Entry("ab1", 1), Entry("ab2", 1)>>,
      <<Entry("ab2", 2), Entry("unnorm", 1)>>,
      <<Entry("ab1", 1), Entry("a", 1)>>,
      <<Entry("nonfloat", 1)>>,
      <<Entry("missing", 1)>> }

InitConc ==
    /\ W_SUBMISSIONS = <<Entry("ab1", 1)>>
    /\ request \in [Callers -> Ensembles]
    /\ pc = [t \in Callers |-> "setup"]
    /\ Locals
    /\ TrainOff

NextConc == \E t \in Callers : Configure(t) \/ Average(t)

SpecConc == InitConc /\ [][NextConc]_vars

(***************************************************************************)
(* What the claims speak of, read off the files and the table rather than  *)
(* off the locals of average()                                             *)
(***************************************************************************)
FilesOf(tab) == {tab[i].file : i \in DOMAIN tab}
WeightsOf(tab) == [i \in DOMAIN tab |-> tab[i].weight]
KeysOfFile(f) == [r \in 1 .. Len(Disk[f]) - 1 |-> Disk[f][r + 1][1]]
FieldCount(line) == Len(line)
ProbOfFile(f, r, c) == Float(Disk[f][r + 1][c + 1])
ParsesAsFloats(f) ==
    \A r \in 2 .. Len(Disk[f]) : \A c \in 2 .. Len(Disk[f][r]) : IsFloat(Disk[f][r][c])
RowsMatchHeader(f) ==
    \A r \in 2 .. Len(Disk[f]) : FieldCount(Disk[f][r]) = FieldCount(Disk[f][1])
WellFormed(f) == Exists(f) /\ ParsesAsFloats(f) /\ RowsMatchHeader(f)
ClassCountsOf(f) == {FieldCount(Disk[f][r]) - 1 : r \in 2 .. Len(Disk[f])}

\* the sources of a table share one key sequence and one class count
SharedKeys(tab) ==
    /\ \A f \in FilesOf(tab) : Exists(f)
    /\ \A f, g \in FilesOf(tab) : KeysOfFile(f) = KeysOfFile(g)
SharedClassCount(tab) ==
    /\ \A f \in FilesOf(tab) : Exists(f) /\ ParsesAsFloats(f)
    /\ Cardinality(UNION {ClassCountsOf(f) : f \in FilesOf(tab)}) = 1
\* the weights are non-negative with a strictly positive sum
Admissible(tab) ==
    /\ \A i \in DOMAIN tab : tab[i].weight >= 0
    /\ SumSeq(WeightsOf(tab)) > 0
RowsSumToOne(f) ==
    \A r \in 1 .. Len(Disk[f]) - 1 :
        SumSeq([c \in 1 .. Len(Disk[f][r + 1]) - 1 |-> ProbOfFile(f, r, c)]) = One

\* the quotient q is the rational number n / d
QuotientIs(q, n, d) == q.den # 0 /\ d # 0 /\ q.num * d = n * q.den

Handed(t) == {i \in DOMAIN submissions : submissions[i].by = t}

\* C1: for sources that share one key sequence and one class count and weights
\* that are non-negative with a positive sum, every entry [r][c] of the matrix
\* handed to create_submission_file is sum_i(weight_i * prob_i[r][c]) /
\* sum_i(weight_i); a single source is handed over unchanged, and two equally
\* weighted sources give the mean of their entries.
WeightedMean ==
    \A i \in DOMAIN submissions :
        LET tab == items[submissions[i].by]
            mat == submissions[i].matrix
            f1 == tab[1].file
        IN (SharedKeys(tab) /\ SharedClassCount(tab) /\ Admissible(tab)) =>
             /\ Len(mat) = Len(KeysOfFile(f1))
             /\ \A r \in 1 .. Len(mat) :
                  /\ Len(mat[r]) = FieldCount(Disk[f1][r + 1]) - 1
                  /\ \A c \in 1 .. Len(mat[r]) :
                       /\ QuotientIs(mat[r][c],
                              SumSeq([j \in DOMAIN tab |->
                                        tab[j].weight * ProbOfFile(tab[j].file, r, c)]),
                              SumSeq(WeightsOf(tab)))
                       /\ Len(tab) = 1 =>
                            QuotientIs(mat[r][c], ProbOfFile(f1, r, c), 1)
                       /\ (Len(tab) = 2 /\ tab[1].weight = tab[2].weight) =>
                            QuotientIs(mat[r][c],
                                ProbOfFile(f1, r, c) + ProbOfFile(tab[2].file, r, c), 2)

\* C1 witness: a matrix has been handed over for two sources with the same keys,
\* different entries and different positive weights
WeightedMeanReached ==
    \E i \in DOMAIN submissions :
        LET tab == items[submissions[i].by]
        IN /\ Len(tab) = 2
           /\ SharedKeys(tab) /\ SharedClassCount(tab) /\ Admissible(tab)
           /\ tab[1].weight > 0 /\ tab[2].weight > tab[1].weight
           /\ ProbOfFile(tab[1].file, 1, 1) # ProbOfFile(tab[2].file, 1, 1)

\* C2: average() never produces a combined matrix, and never writes a
\* submission, from sources whose key sequences are not identical (it is to
\* fail with KeyMismatchError before the combination).
KeyMismatchRejected ==
    \A t \in Callers :
        Admissible(items[t]) =>
            /\ pc[t] \in {"write", "done"} => SharedKeys(items[t])
            /\ Handed(t) # {} => SharedKeys(items[t])

\* C3: when all weights are zero or some weight is negative, average() does
\* not divide by the weight sum and write a result (it is to fail with
\* InvalidWeightError).
InvalidWeightsRejected ==
    \A t \in Callers :
        /\ pc[t] \in {"write", "done"} => Admissible(items[t])
        /\ Handed(t) # {} => Admissible(items[t])

\* C4: when every row of every source sums to 1 and the weights are admissible,
\* every row of the matrix handed to create_submission_file sums to 1, the
\* matrix being the quotient of line 41 itself (no renormalisation after it).
RowSumInvariant ==
    \A i \in DOMAIN submissions :
        LET t == submissions[i].by
            tab == items[t]
            mat == submissions[i].matrix
        IN (/\ \A f \in FilesOf(tab) : Exists(f) /\ ParsesAsFloats(f) /\ RowsSumToOne(f)
            /\ Admissible(tab))
           => /\ mat = averaged[t]
              /\ \A r \in 1 .. Len(mat) :
                   /\ Len(mat[r]) > 0
                   /\ \A c \in 1 .. Len(mat[r]) : mat[r][c].den = mat[r][1].den
                   /\ mat[r][1].den > 0
                   /\ SumSeq([c \in 1 .. Len(mat[r]) |-> mat[r][c].num])
                        = One * mat[r][1].den

\* C4 witness: a matrix handed over for two different normalised sources with
\* different positive weights
RowSumReached ==
    \E i \in DOMAIN submissions :
        LET tab == items[submissions[i].by]
        IN /\ Len(tab) = 2
           /\ \A f \in FilesOf(tab) : Exists(f) /\ ParsesAsFloats(f) /\ RowsSumToOne(f)
           /\ tab[1].weight > tab[2].weight /\ tab[2].weight > 0
           /\ ProbOfFile(tab[1].file, 1, 1) # ProbOfFile(tab[2].file, 1, 1)

\* C5: a file with a data row whose field count differs from the header's, or
\* with a probability field that is no float, is never accepted as a source of
\* the combination (parsing it is to fail with FormatError).
MalformedRejected ==
    \A t \in Callers :
        Admissible(items[t]) =>
            \A i \in 1 .. Len(probs[t]) : WellFormed(items[t][i].file)

\* C6: create_submission_file is called only after every source of the table
\* has been read and parsed and the combination computed; a call that failed in
\* reading or parsing a source has not called it.
FailFast ==
    /\ \A i \in DOMAIN submissions :
         LET t == submissions[i].by
         IN /\ idx[t] = Len(items[t])
            /\ Len(probs[t]) = Len(items[t])
            /\ Len(weights[t]) = Len(items[t])
            /\ \A j \in DOMAIN items[t] :
                 /\ Exists(items[t][j].file)
                 /\ ParsesAsFloats(items[t][j].file)
                 /\ probs[t][j] = SingleProbs(DataLines(items[t][j].file))
            /\ submissions[i].matrix = averaged[t]
            /\ averaged[t] = Averaged(probs[t], weights[t])
    /\ \A t \in Callers :
         (\E f \in FilesOf(items[t]) : ~Exists(f) \/ ~ParsesAsFloats(f))
         => Handed(t) = {}
    /\ \A t \in Callers : pc[t] = "failed" => Handed(t) = {}

\* C6 witness: the second source failed to read or parse after the first one
\* had been read, and nothing has been written
FailFastReached ==
    \E t \in Callers :
        /\ pc[t] = "failed"
        /\ err[t] \in {"IOError", "ValueError"}
        /\ idx[t] = 1 /\ Len(probs[t]) = 1 /\ Len(items[t]) = 2
        /\ submissions = <<>>

\* C9: two combinations run concurrently on different ensembles do not
\* interfere: each reads the weights of its own ensemble, and neither writes
\* the output artifact of the other.
NoInterference ==
    /\ \A t \in Callers :
         pc[t] \in {"loop", "write", "done", "failed"} => items[t] = request[t]
    /\ \A i, j \in DOMAIN submissions :
         submissions[i].by # submissions[j].by
         => submissions[i].path # submissions[j].path

\* C10: names is reset in every iteration, so after an iteration it holds the
\* keys of the source just read; the keys written are exactly the keys of the
\* last source of the table, whatever the keys of the earlier sources, and row
\* i of the combined matrix goes with key i.
KeysOfLastSource ==
    /\ \A t \in Callers :
         (pc[t] \in {"loop", "write", "done"} /\ idx[t] >= 1)
         => names[t] = KeysOfFile(items[t][idx[t]].file)
    /\ \A i \in DOMAIN submissions :
         LET t == submissions[i].by
         IN /\ submissions[i].keys = KeysOfFile(Last(items[t]).file)
            /\ Len(submissions[i].matrix) = Len(submissions[i].keys)
            /\ submissions[i].matrix = averaged[t]

\* C10 witness: written from two sources whose key sequences differ
KeysOfLastSourceReached ==
    \E i \in DOMAIN submissions :
        LET tab == items[submissions[i].by]
        IN /\ Len(tab) = 2
           /\ KeysOfFile(tab[1].file) # KeysOfFile(tab[2].file)

(***************************************************************************)
(* train()                                                                 *)
(***************************************************************************)
RECURSIVE ExpectedLayout(_)
ExpectedLayout(n) ==
    IF n = 0 THEN <<>>
    ELSE ExpectedLayout(n - 1) \o [c \in 1 .. classes[n] |-> <<MODELS[n].name, c>>]

Count(s, e) == Cardinality({i \in DOMAIN s : s[i] = e})
Position(s, e) == CHOOSE i \in DOMAIN s : s[i] = e

\* C7: in final-fit mode, after every iteration of the model loop preds_val and
\* preds_te hold the blocks of the same models in the same order, so the
\* combiner is applied to the column layout it was fitted on; no run accepts or
\* reorders a differing layout.
SameColumnLayout ==
    ~cross_validate =>
        /\ tpc \in {"loop", "fit", "predict_proba", "write", "print_coef", "done"} =>
             /\ Layout(preds_val) = ExpectedLayout(m)
             /\ Layout(preds_te) = ExpectedLayout(m)
             /\ \A i \in DOMAIN preds_val :
                  /\ preds_val[i].preprocess = preds_te[i].preprocess
                  /\ preds_val[i].dir = "val"
                  /\ preds_te[i].dir = "te"
        /\ y_pred.made => Layout(y_pred.X) = Layout(y_pred.by.X)
        /\ tpc # "failed"

\* C7 witness: the combiner has been applied after a loop over several models
SameColumnLayoutReached ==
    /\ ~cross_validate
    /\ y_pred.made
    /\ Len(MODELS) >= 2
    /\ classes[1] # classes[2]

\* C8: a call of train() runs one mode.  Cross-validate mode makes no test
\* prediction, fits no final combiner, writes no file and ends by printing the
\* scores.  Final-fit mode fits once, on the complete validation features and
\* labels, applies the combiner to the test features, writes one file and
\* prints the coefficients after the file is written.
OneModePerCall ==
    /\ cross_validate =>
         /\ Count(trace, "predict_te") = 0
         /\ ~lr.fitted /\ ~y_pred.made
         /\ stacked = <<>>
         /\ scores.made => scores.X = preds_val /\ Len(preds_val) = Len(ExpectedLayout(Len(MODELS)))
         /\ tpc = "done" =>
              /\ scores.made
              /\ Last(trace) = "print_scores"
              /\ Count(trace, "print_scores") = 1
    /\ ~cross_validate =>
         /\ ~scores.made
         /\ Count(trace, "print_scores") = 0
         /\ Count(trace, "fit") <= 1
         /\ Len(stacked) <= 1
         /\ lr.fitted =>
              /\ lr.X = preds_val /\ lr.y = "y_val"
              /\ Layout(lr.X) = ExpectedLayout(Len(MODELS))
              /\ \A i \in DOMAIN lr.X : lr.X[i].dir = "val"
         /\ y_pred.made =>
              /\ y_pred.by = lr /\ lr.fitted
              /\ y_pred.X = preds_te
              /\ \A i \in DOMAIN y_pred.X : y_pred.X[i].dir = "te"
         /\ \A i \in DOMAIN stacked :
              /\ stacked[i].path = OutputOfTrain
              /\ stacked[i].matrix = y_pred /\ y_pred.made
         /\ Count(trace, "print_coef") = 1 =>
              /\ Len(stacked) = 1
              /\ Position(trace, "create_submission_file") < Position(trace, "print_coef")
         /\ tpc = "done" =>
              /\ Len(stacked) = 1
              /\ Count(trace, "fit") = 1
              /\ Last(trace) = "print_coef"

\* C8 witness: a final-fit call over several models has ended
OneModePerCallReached ==
    /\ ~cross_validate
    /\ tpc = "done"
    /\ Len(MODELS) >= 2
    /\ Len(stacked) = 1

====
